---- MODULE Spec2Model ----
(***************************************************************************)
(* The feed -> filter -> map -> submit pipeline of Task.control(), in the   *)
(* five versions of it that the repository holds:                          *)
(*   "task"      src/task.ts                (USGS, validated, alert table) *)
(*   "lifetime"  src/unnamed/part_001       (USGS, 'CoT Lifetime Seconds') *)
(*   "title"     src/unnamed/part_000:1     (USGS, title callsign)         *)
(*   "alert"     src/unnamed/part_000:129   (USGS, inline alert tables)    *)
(*   "geonet"    src/unnamed/part_000:288   (GeoNet, 'MMI')                *)
(*                                                                         *)
(* Numbers.  A JavaScript value is a record [t, v]: t is "num", "nan",     *)
(* "undef" or "null".  Configuration numbers, magnitudes, intensities and  *)
(* coordinates are fixed point with one decimal: v counts TENTHS, so 2.5   *)
(* is v = 25.  Times are v = milliseconds.  The inputs are chosen with at  *)
(* most one decimal, for which this arithmetic is that of the code.        *)
(* A string is a sequence of one-character strings.                        *)
(***************************************************************************)
EXTENDS Integers, Sequences, FiniteSets, TLC

VARIABLES
    variant,      \* which version of control() runs
    env,          \* the configuration: named string fields
    cfg,          \* the values parsed from env
    pc,           \* position of the run in control()
    res,          \* the response of the GET
    body,         \* the parsed document's features array
    now,          \* Date.now(), read once after the fetch
    idx,          \* number of records the for-loop has consumed
    features,     \* the features pushed so far
    submitted,    \* the collections handed to submit(), in order
    fetchCount,   \* calls of fetch()
    error,        \* message of the error thrown, "" when none
    logged,       \* console.error has run in the catch block
    reported,     \* the count logged before submit, -1 when none
    previous      \* what the run before this one read, NoRun in a first run

vars == <<variant, env, cfg, pc, res, body, now, idx, features, submitted,
          fetchCount, error, logged, reported, previous>>

-----------------------------------------------------------------------------
(* JavaScript values *)

Num(n) == [t |-> "num", v |-> n]
NaN == [t |-> "nan", v |-> 0]
Undefined == [t |-> "undef", v |-> 0]
Null == [t |-> "null", v |-> 0]

\* ToNumber of a value that is a number, undefined or null.
ToNumber(x) ==
    CASE x.t = "num" -> x
      [] x.t = "null" -> Num(0)
      [] OTHER -> NaN

isNaN(x) == ToNumber(x).t = "nan"

\* a < b, a > b, a <= b, a >= b: false as soon as one side is NaN.
Lt(a, b) == ToNumber(a).t = "num" /\ ToNumber(b).t = "num" /\ ToNumber(a).v < ToNumber(b).v
Gt(a, b) == Lt(b, a)
Le(a, b) == ToNumber(a).t = "num" /\ ToNumber(b).t = "num" /\ ToNumber(a).v <= ToNumber(b).v
Ge(a, b) == Le(b, a)

\* Math.min(a, b)
MathMin(a, b) ==
    IF isNaN(a) \/ isNaN(b) THEN NaN
    ELSE IF ToNumber(a).v < ToNumber(b).v THEN ToNumber(a) ELSE ToNumber(b)

-----------------------------------------------------------------------------
(* Strings: String.prototype.split(','), Number(string), toLowerCase() *)

Digits == <<"0", "1", "2", "3", "4", "5", "6", "7", "8", "9">>
IsDigit(c) == \E k \in 1..10 : Digits[k] = c
DigitVal(c) == (CHOOSE k \in 1..10 : Digits[k] = c) - 1

RECURSIVE DigitsVal(_)
DigitsVal(s) ==
    IF s = <<>> THEN 0
    ELSE DigitsVal(SubSeq(s, 1, Len(s) - 1)) * 10 + DigitVal(s[Len(s)])

AllDigits(s) == \A k \in 1..Len(s) : IsDigit(s[k])

RECURSIVE Split(_)
Split(s) ==
    IF \A k \in 1..Len(s) : s[k] # ","
    THEN <<s>>
    ELSE LET k == CHOOSE j \in 1..Len(s) :
                      s[j] = "," /\ \A h \in 1..(j - 1) : s[h] # ","
         IN  <<SubSeq(s, 1, k - 1)>> \o Split(SubSeq(s, k + 1, Len(s)))

RECURSIVE Trim(_)
Trim(s) ==
    IF s = <<>> THEN s
    ELSE IF s[1] = " " THEN Trim(Tail(s))
    ELSE IF s[Len(s)] = " " THEN Trim(SubSeq(s, 1, Len(s) - 1))
    ELSE s

\* Number(s) for decimal literals: surrounding blanks are dropped, the empty
\* string is 0, an optional sign, digits with an optional fraction; anything
\* else is NaN.  The value is in tenths.
Unsigned(s) ==
    LET dots == {k \in 1..Len(s) : s[k] = "."}
        d == IF dots = {} THEN Len(s) + 1 ELSE CHOOSE k \in dots : TRUE
        int == SubSeq(s, 1, d - 1)
        frac == SubSeq(s, d + 1, Len(s))
    IN  IF Cardinality(dots) > 1 \/ ~AllDigits(int) \/ ~AllDigits(frac)
           \/ Len(int) + Len(frac) = 0
        THEN NaN
        ELSE Num(DigitsVal(int) * 10 + (IF frac = <<>> THEN 0 ELSE DigitVal(frac[1])))

Number(str) ==
    LET s == Trim(str)
    IN  IF s = <<>> THEN Num(0)
        ELSE IF s[1] = "-"
             THEN LET u == Unsigned(Tail(s))
                  IN  IF u.t = "num" THEN Num(0 - u.v) ELSE NaN
        ELSE IF s[1] = "+" THEN Unsigned(Tail(s))
        ELSE Unsigned(s)

\* const [a, b, c, d] = parts: a missing element is undefined.
At(parts, k) == IF k <= Len(parts) THEN parts[k] ELSE Undefined

MapNumber(parts) == [k \in 1..Len(parts) |-> Number(parts[k])]

Upper == <<"A", "B", "C", "D", "E", "F", "G", "H", "I", "J", "K", "L", "M",
           "N", "O", "P", "Q", "R", "S", "T", "U", "V", "W", "X", "Y", "Z">>
Lower == <<"a", "b", "c", "d", "e", "f", "g", "h", "i", "j", "k", "l", "m",
           "n", "o", "p", "q", "r", "s", "t", "u", "v", "w", "x", "y", "z">>

LowerChar(c) ==
    IF \E k \in 1..26 : Upper[k] = c
    THEN Lower[CHOOSE k \in 1..26 : Upper[k] = c]
    ELSE c

toLowerCase(s) == [k \in 1..Len(s) |-> LowerChar(s[k])]

\* the decimal digits of a natural number
RECURSIVE NatToString(_)
NatToString(n) ==
    IF n < 10 THEN <<Digits[n + 1]>>
    ELSE NatToString(n \div 10) \o <<Digits[(n % 10) + 1]>>

Abs(n) == IF n < 0 THEN 0 - n ELSE n
Sign(n) == IF n < 0 THEN <<"-">> ELSE <<>>

\* `${x}`: ToString of a number (in tenths), undefined or null.  A whole
\* number prints without a fraction: 5.0 is "5", 2.5 is "2.5".
NumberToString(x) ==
    CASE x.t = "undef" -> <<"u", "n", "d", "e", "f", "i", "n", "e", "d">>
      [] x.t = "null" -> <<"n", "u", "l", "l">>
      [] x.t = "nan" -> <<"N", "a", "N">>
      [] OTHER ->
           Sign(x.v) \o NatToString(Abs(x.v) \div 10)
               \o (IF Abs(x.v) % 10 = 0 THEN <<>>
                   ELSE <<".", Digits[(Abs(x.v) % 10) + 1]>>)

\* x.toFixed(digits) of a number in tenths, digits >= 1: 5.0 is "5.0", "5.00"
toFixed(x, digits) ==
    Sign(x.v) \o NatToString(Abs(x.v) \div 10)
        \o <<".", Digits[(Abs(x.v) % 10) + 1]>>
        \o [k \in 1..(digits - 1) |-> "0"]

-----------------------------------------------------------------------------
(* The alert-level tables *)

K_none == <<"n", "o", "n", "e">>
K_green == <<"g", "r", "e", "e", "n">>
K_yellow == <<"y", "e", "l", "l", "o", "w">>
K_orange == <<"o", "r", "a", "n", "g", "e">>
K_red == <<"r", "e", "d">>

\* src/task.ts
ALERT_COLORS ==
    (K_none :> "#ffffff") @@ (K_green :> "#00ff00") @@ (K_yellow :> "#ffff00")
    @@ (K_orange :> "#ff7f00") @@ (K_red :> "#ff0000")

ESTIMATED_FATALITIES ==
    (K_none :> "0") @@ (K_green :> "0") @@ (K_yellow :> "1 - 99")
    @@ (K_orange :> "100 - 999") @@ (K_red :> "1,000+")

ESTIMATED_LOSSES ==
    (K_none :> "< $1 million USD") @@ (K_green :> "< $1 million USD")
    @@ (K_yellow :> "$1 million USD - $100 million USD")
    @@ (K_orange :> "$100 million USD - $1 billion USD")
    @@ (K_red :> "$1 billion+ USD")

\* the object literal of src/unnamed/part_000:219
InlineEstimatedLosses ==
    (K_none :> "< $1 million") @@ (K_green :> "< $1 million")
    @@ (K_yellow :> "$1 million - $100 million")
    @@ (K_orange :> "$100 million - $1 billion")
    @@ (K_red :> "$1 billion+")

\* The tables are plain objects: a key they do not own is looked up on
\* Object.prototype.  Of its member names only these two are their own lower
\* case.  The member found is an object or a function, not a string.
ObjectPrototypeKeys == {<<"c", "o", "n", "s", "t", "r", "u", "c", "t", "o", "r">>, <<"_", "_", "p", "r", "o", "t", "o", "_", "_">>}
InheritedMember == "[member of Object.prototype]"

\* table[key] || dflt
LookupOr(table, key, dflt) ==
    IF key \in DOMAIN table THEN table[key]
    ELSE IF key \in ObjectPrototypeKeys THEN InheritedMember
    ELSE dflt

\* An alert is [t, s]: a string s (t = "str"), null or undefined (absent).
StrVal(s) == [t |-> "str", s |-> s]
NullStr == [t |-> "null", s |-> <<>>]
UndefStr == [t |-> "undef", s |-> <<>>]

\* (props.alert || 'none').toLowerCase()
AlertLevel(alert) ==
    IF alert.t # "str" \/ alert.s = <<>> THEN toLowerCase(K_none)
    ELSE toLowerCase(alert.s)

\* the three values derived from props.alert, by version
AlertLookup(v, alert) ==
    [color |-> LookupOr(ALERT_COLORS, AlertLevel(alert), "#ffffff"),
     fatalities |-> LookupOr(ESTIMATED_FATALITIES, AlertLevel(alert), "0"),
     losses |-> IF v = "task"
                THEN LookupOr(ESTIMATED_LOSSES, AlertLevel(alert), "< $1 million USD")
                ELSE LookupOr(InlineEstimatedLosses, AlertLevel(alert), "< $1 million")]

-----------------------------------------------------------------------------
(* Configurations *)

MAX_AGE_LIMIT == 10080

BBoxDefault == <<"-", "9", "0", ",", "9", "0", ",", "-", "1", "8", "0", ",", "1", "8", "0">>
BBoxAntimeridian == <<"-", "4", "5", ",", "-", "4", "1", ",", "1", "7", "0", ",", "-", "1", "7", "0">>
BBoxNormal == <<"-", "9", "0", ",", "9", "0", ",", "-", "1", "0", ",", "1", "0">>
BBoxThreeParts == <<"1", ",", "2", ",", "3">>
BBoxFiveParts == <<"1", ",", "2", ",", "3", ",", "4", ",", "5">>
BBoxNotNumber == <<"1", ",", "2", ",", "a", ",", "4">>

MagDefault == <<"2", ".", "5">>
MagFive == <<"5">>
AgeDefault == <<"6", "0">>
AgeWeek == <<"1", "0", "0", "8", "0">>
AgeOverWeek == <<"2", "0", "0", "0", "0">>
NotANumber == <<"a", "b", "c">>
MMIDefault == <<"5">>
MMILowest == <<"-", "1">>
MMIHighest == <<"8">>
MMITooHigh == <<"9">>
MMITooLow == <<"-", "2">>
LifeDefault == <<"6", "0", "0">>
LifeZero == <<"0">>
LifeNegative == <<"-", "6", "0">>

BoundingBoxes ==
    {BBoxDefault, BBoxAntimeridian, BBoxNormal, BBoxThreeParts, BBoxFiveParts,
     BBoxNotNumber}

\* Env of the USGS versions, with its defaults
UsgsEnv == [bbox |-> BBoxDefault, minMag |-> MagDefault, maxAge |-> AgeDefault,
            mmi |-> <<>>, life |-> LifeDefault]

\* Env of the GeoNet version, with its defaults
GeoNetEnv == [bbox |-> <<>>, minMag |-> <<>>, maxAge |-> AgeWeek,
              mmi |-> MMIDefault, life |-> <<>>]

\* The configurations explored: the defaults with one field changed.
UsgsEnvs(boxes, mags, ages) ==
    {[UsgsEnv EXCEPT !.bbox = b] : b \in boxes}
    \cup {[UsgsEnv EXCEPT !.minMag = m] : m \in mags}
    \cup {[UsgsEnv EXCEPT !.maxAge = a] : a \in ages}

GeoNetEnvs ==
    {[GeoNetEnv EXCEPT !.mmi = m] :
        m \in {MMIDefault, MMILowest, MMIHighest, MMITooHigh, MMITooLow, NotANumber}}
    \cup {[GeoNetEnv EXCEPT !.maxAge = a] : a \in {AgeDefault, AgeOverWeek, NotANumber}}

Envs(v) ==
    CASE v = "task" ->
           UsgsEnvs(BoundingBoxes, {MagFive, NotANumber},
                    {AgeWeek, AgeOverWeek, NotANumber})
      [] v = "lifetime" ->
           UsgsEnvs({BBoxDefault, BBoxThreeParts}, {NotANumber}, {AgeOverWeek})
           \cup {[UsgsEnv EXCEPT !.life = l] : l \in {LifeZero, LifeNegative, NotANumber}}
      [] v = "title" -> UsgsEnvs({}, {}, {AgeWeek})
      [] v = "alert" -> UsgsEnvs({BBoxAntimeridian}, {}, {})
      [] v = "geonet" -> GeoNetEnvs

Variants == {"task", "lifetime", "title", "alert", "geonet"}
HasTryCatch(v) == v \in {"task", "geonet"}
IsUsgs(v) == v # "geonet"

-----------------------------------------------------------------------------
(* The upstream feed *)

MaxFeed == 2

\* Date.now() of the run, in milliseconds; the records are dated back from it.
Epoch == 1000 * 1000 * 1000
NowValues == {Epoch}
Minutes(m) == m * 60 * 1000

\* A USGS record: feature.id, properties.{mag, time, type, alert} and
\* geometry.coordinates, [lon, lat] or [lon, lat, depth].
Quake(id, mag, age, type, alert, coords) ==
    [id |-> id, mag |-> mag, time |-> Num(Epoch - age), type |-> type,
     alert |-> alert, coords |-> coords]

Wellington == <<Num(1750), Num(-410), Num(120)>>
Point(lon, lat) == <<Num(lon * 10), Num(lat * 10), Num(120)>>

\* One record that passes the default configuration, and records that differ
\* from it in the one field a filter reads: the magnitude, the age (a week and
\* a week and a millisecond), the type, the longitude, the latitude, the depth.
\* The alert values ride along.
UsgsRecords ==
    {Quake("a", Num(50), 0, "earthquake", NullStr, Wellington),
     Quake("b", Num(25), 0, "earthquake", StrVal(K_green), Wellington),
     Quake("c", Num(24), 0, "earthquake", StrVal(K_none), Wellington),
     Quake("d", Undefined, 0, "earthquake", StrVal(<<"O", "r", "a", "n", "g", "e">>), Wellington),
     Quake("e", Num(50), Minutes(10080) + 1, "earthquake", UndefStr, Wellington),
     Quake("f", Num(50), Minutes(10080), "earthquake", StrVal(K_yellow), Wellington),
     Quake("g", Num(50), 0, "explosion", StrVal(K_red), Wellington),
     Quake("h", Num(50), 0, "earthquake", StrVal(<<"R", "E", "D">>), Point(0, -41)),
     Quake("i", Num(50), 0, "earthquake", StrVal(<<"Y", "e", "l", "l", "o", "w">>), Point(20, -41)),
     Quake("j", Num(50), 0, "earthquake", StrVal(<<"c", "o", "n", "s", "t", "r", "u", "c", "t", "o", "r">>), Point(180, -41)),
     Quake("k", Num(50), 0, "earthquake", StrVal(<<>>), Point(-180, -41)),
     Quake("l", Num(50), 0, "earthquake", StrVal(<<"p", "u", "r", "p", "l", "e">>), Point(170, -41)),
     Quake("n", Num(50), 0, "earthquake", StrVal(<<"G", "R", "E", "E", "N">>), Point(175, 90)),
     Quake("o", Num(50), 0, "earthquake", StrVal(K_red), <<Num(1750), Num(-410)>>)}

\* A time string of the GeoNet feed: an ISO 8601 instant, held as the
\* millisecond it denotes, or a string that is no date.
Iso(ms) == [t |-> "iso", v |-> ms]
NoDate == [t |-> "text", v |-> 0]

\* new Date(string).getTime()
DateParse(str) == IF str.t = "iso" THEN Num(str.v) ELSE NaN

\* new Date(number).toISOString(); throws RangeError on an invalid time
toISOString(time) == Iso(ToNumber(time).v)

\* A GeoNet record: properties.{publicID, time, depth, magnitude, mmi} and
\* geometry.coordinates, [lon, lat]: the depth is a property
GeoQuake(id, age, magnitude, mmi) ==
    [id |-> id, time |-> IF age < 0 THEN NoDate ELSE Iso(Epoch - age),
     depth |-> Num(120), magnitude |-> magnitude, mmi |-> mmi,
     coords |-> <<Num(1750), Num(-410)>>]

GeoNetRecords ==
    {GeoQuake("p", 0, Num(42), Num(50)),
     GeoQuake("q", 0, Num(42), Num(30)),
     GeoQuake("r", 0, Num(42), Num(80)),
     GeoQuake("t", Minutes(10080) + 1, Num(42), Num(50)),
     GeoQuake("u", Minutes(10080), Num(42), Num(50)),
     GeoQuake("v", -1, Num(42), Num(50)),
     GeoQuake("w", 0, Undefined, Num(50))}

Records(v) == IF IsUsgs(v) THEN UsgsRecords ELSE GeoNetRecords

RECURSIVE SeqsUpTo(_, _)
SeqsUpTo(S, n) ==
    IF n = 0 THEN {<<>>}
    ELSE LET shorter == SeqsUpTo(S, n - 1)
         IN  shorter \cup {Append(f, r) : f \in shorter, r \in S}

Feeds(v) == SeqsUpTo(Records(v), MaxFeed)

-----------------------------------------------------------------------------
(* Configuration parsing and validation *)

NoCfg ==
    [minLat |-> Undefined, maxLat |-> Undefined, minLon |-> Undefined,
     maxLon |-> Undefined, minMagnitude |-> Undefined,
     maxAgeMinutes |-> Undefined, mmi |-> Undefined,
     cotLifetimeSeconds |-> Undefined]

\* const [minLat, maxLat, minLon, maxLon] = env['Bounding Box'].split(',').map(Number)
BoundingBox(str) ==
    LET parts == MapNumber(Split(str))
    IN  [minLat |-> At(parts, 1), maxLat |-> At(parts, 2),
         minLon |-> At(parts, 3), maxLon |-> At(parts, 4)]

\* The values the USGS versions read from env; src/task.ts clamps the age.
UsgsCfg(v, e) ==
    LET box == BoundingBox(e.bbox)
        age == Number(e.maxAge)
    IN  [NoCfg EXCEPT !.minLat = box.minLat, !.maxLat = box.maxLat,
                      !.minLon = box.minLon, !.maxLon = box.maxLon,
                      !.minMagnitude = Number(e.minMag),
                      !.maxAgeMinutes =
                          IF v = "task" THEN MathMin(age, Num(MAX_AGE_LIMIT * 10))
                          ELSE age,
                      !.cotLifetimeSeconds =
                          IF v = "lifetime" THEN Number(e.life) ELSE Undefined]

GeoNetCfg(e) ==
    [NoCfg EXCEPT !.mmi = Number(e.mmi), !.maxAgeMinutes = Number(e.maxAge)]

\* The message of the error the validation throws, "" when it throws none.
\* Only src/task.ts and the GeoNet version validate.
ConfigError(v, e) ==
    LET box == BoundingBox(e.bbox)
    IN  CASE v = "task" ->
               IF \E x \in {box.minLat, box.maxLat, box.minLon, box.maxLon} : isNaN(x)
               THEN "Invalid bounding box format. Expected: minLat,maxLat,minLon,maxLon"
               ELSE IF isNaN(Number(e.minMag)) THEN "Invalid minimum magnitude value"
               ELSE IF isNaN(Number(e.maxAge)) THEN "Invalid max age minutes value"
               ELSE ""
          [] v = "geonet" ->
               IF isNaN(Number(e.mmi)) \/ Lt(Number(e.mmi), Num(-10))
                  \/ Gt(Number(e.mmi), Num(80))
               THEN "Invalid MMI value. Must be between -1 and 8"
               ELSE IF isNaN(Number(e.maxAge)) THEN "Invalid max age minutes value"
               ELSE ""
          [] OTHER -> ""

-----------------------------------------------------------------------------
(* The per-record filter *)

\* the magnitude test with <= for <: a record at the minimum is dropped
MagFailsAtMinimum(mag, minMagnitude) == Le(mag, minMagnitude)

\* mag < minMagnitude
MagFails(mag, minMagnitude) == Lt(mag, minMagnitude)

\* lat < minLat || lat > maxLat
LatFails(lat, c) == Lt(lat, c.minLat) \/ Gt(lat, c.maxLat)

\* the longitude test without its antimeridian branch
lonInBoxNoWrap(lon, c) == Ge(lon, c.minLon) /\ Le(lon, c.maxLon)

\* minLon <= maxLon ? lon >= minLon && lon <= maxLon : lon >= minLon || lon <= maxLon
lonInBox(lon, c) ==
    IF Le(c.minLon, c.maxLon)
    THEN Ge(lon, c.minLon) /\ Le(lon, c.maxLon)
    ELSE Ge(lon, c.minLon) \/ Le(lon, c.maxLon)

\* the age test with >= for >: a record on the boundary is dropped
AgeFailsOnBoundary(n, time, maxAgeMinutes) ==
    /\ ToNumber(time).t = "num"
    /\ ToNumber(maxAgeMinutes).t = "num"
    /\ n - ToNumber(time).v >= ToNumber(maxAgeMinutes).v * 6 * 1000

\* (now - time) > maxAgeMinutes * 60 * 1000, maxAgeMinutes being in tenths
AgeFails(n, time, maxAgeMinutes) ==
    /\ ToNumber(time).t = "num"
    /\ ToNumber(maxAgeMinutes).t = "num"
    /\ n - ToNumber(time).v > ToNumber(maxAgeMinutes).v * 6 * 1000

\* ageMinutes = (now - eventTime) / (1000 * 60); ageMinutes > maxAgeMinutes.
\* The quotient is compared exactly: both sides are multiplied by 1000 * 60.
GeoNetAgeFails(n, eventTime, maxAgeMinutes) ==
    /\ eventTime.t = "num"
    /\ ToNumber(maxAgeMinutes).t = "num"
    /\ (n - eventTime.v) > ToNumber(maxAgeMinutes).v * 6 * 1000

HasTypeTest(v) == v \in {"task", "alert"}

\* the condition of `continue`
Excluded(v, r, c, n) ==
    IF IsUsgs(v)
    THEN \/ MagFails(r.mag, c.minMagnitude)
         \/ LatFails(At(r.coords, 2), c)
         \/ ~lonInBox(At(r.coords, 1), c)
         \/ AgeFails(n, r.time, c.maxAgeMinutes)
         \/ (HasTypeTest(v) /\ r.type # "earthquake")
    ELSE GeoNetAgeFails(n, DateParse(r.time), c.maxAgeMinutes)

-----------------------------------------------------------------------------
(* Field mapping *)

HasAlert(v) == v \in {"task", "alert"}

\* coords[2] || 0
Depth(coords) ==
    IF ToNumber(At(coords, 3)).t = "num" /\ At(coords, 3).v # 0
    THEN At(coords, 3) ELSE Num(0)

\* the unary minus left out
NegateForgotten(x) == ToNumber(x)

\* -depth
Negate(x) == IF ToNumber(x).t = "num" THEN Num(0 - ToNumber(x).v) ELSE NaN

\* The lines of the remarks block that carry the magnitude and the depth (the
\* place, time, alert, intensity and quality lines are not modelled).
MagnitudePrefix == <<"M", "a", "g", "n", "i", "t", "u", "d", "e", ":", " ">>
DepthPrefix == <<"D", "e", "p", "t", "h", ":", " ">>
DepthSuffix == <<" ", "k", "m">>

Remarks(v, r) ==
    IF IsUsgs(v)
    THEN <<MagnitudePrefix \o NumberToString(r.mag),
           DepthPrefix \o NumberToString(Depth(r.coords)) \o DepthSuffix>>
    ELSE <<MagnitudePrefix \o toFixed(r.magnitude, 2),
           DepthPrefix \o toFixed(r.depth, 1) \o DepthSuffix>>

\* MMI_COLORS[props.mmi] || '#000000'
MMI_COLORS ==
    <<"#FFF7F3", "transparent", "#FFF7F3", "#FEEDDE", "#FDD0A2", "#FDAE6B",
      "#FD8D3C", "#F16913", "#F03B20", "#BD0026", "#A30021">>

MmiColor(mmi) ==
    IF mmi.t = "num" /\ mmi.v % 10 = 0 /\ mmi.v \div 10 \in -1..9
    THEN MMI_COLORS[mmi.v \div 10 + 2]
    ELSE "#000000"

\* The error the mapping of record r throws, "" when it throws none:
\* toFixed of a missing magnitude, toISOString of an invalid time.
MapError(v, r, c) ==
    CASE v = "geonet" ->
           IF r.magnitude.t # "num" \/ r.depth.t # "num"
           THEN "TypeError: Cannot read properties of undefined (reading 'toFixed')"
           ELSE ""
      [] v = "lifetime" /\ r.mag.t # "num" ->
           "TypeError: Cannot read properties of undefined (reading 'toFixed')"
      [] OTHER ->
           IF ToNumber(r.time).t # "num"
              \/ (v = "lifetime" /\ isNaN(c.cotLifetimeSeconds))
           THEN "RangeError: Invalid time value"
           ELSE ""

\* the expiry counted from the clock reading of the run
StaleFromNow(time, cotLifetimeSeconds) == Iso(now + cotLifetimeSeconds.v * 100)

\* new Date(time + cotLifetimeSeconds * 1000), the lifetime being in tenths
Stale(time, cotLifetimeSeconds) == Iso(time.v + cotLifetimeSeconds.v * 100)

\* The feature pushed for record r, the k-th of the feed (src is not a field
\* of the feature: it records which record the feature was built from).
MapFeature(v, r, k, c) ==
    LET look == AlertLookup(v, r.alert)
    IN  IF IsUsgs(v)
        THEN [id |-> "earthquake-" \o r.id,
              src |-> k,
              time |-> toISOString(r.time),
              start |-> toISOString(r.time),
              stale |-> IF v = "lifetime"
                        THEN Stale(r.time, c.cotLifetimeSeconds)
                        ELSE NoDate,
              markerColor |-> IF HasAlert(v) THEN look.color ELSE "",
              estimatedFatalities |-> IF HasAlert(v) THEN look.fatalities ELSE "",
              estimatedLosses |-> IF HasAlert(v) THEN look.losses ELSE "",
              magnitude |-> r.mag,
              remarks |-> Remarks(v, r),
              coordinates |->
                  IF v = "lifetime" THEN <<At(r.coords, 1), At(r.coords, 2)>>
                  ELSE <<At(r.coords, 1), At(r.coords, 2), Negate(Depth(r.coords))>>]
        ELSE [id |-> "earthquake-" \o r.id,
              src |-> k,
              time |-> r.time,
              start |-> r.time,
              stale |-> NoDate,
              markerColor |-> MmiColor(r.mmi),
              estimatedFatalities |-> "",
              estimatedLosses |-> "",
              magnitude |-> r.magnitude,
              remarks |-> Remarks(v, r),
              coordinates |-> <<At(r.coords, 1), At(r.coords, 2), Negate(r.depth)>>]

-----------------------------------------------------------------------------
(* control() *)

NoResponse == [ok |-> FALSE, kind |-> "none"]

\* what res.json() finds: a document with a features array, a document
\* without one, or text that is not JSON
BodyKinds == {"features", "nofeatures", "notjson"}

ChecksStatus(v) == v \in {"task", "geonet"}

\* The response, payload and clock reading of the run before this one, when
\* control() is invoked again on the same upstream document.
NoRun == [res |-> NoResponse, body |-> <<>>, now |-> 0]

\* what fetch() resolves to: any response, and the same response again when
\* the upstream document has not changed since the run before
Responses ==
    IF previous = NoRun
    THEN {[ok |-> ok, kind |-> kind] : ok \in BOOLEAN, kind \in BodyKinds}
    ELSE {previous.res}

\* what res.json() resolves to
Payloads == IF previous = NoRun THEN Feeds(variant) ELSE {previous.body}

\* Date.now(): it does not run backwards from one run to the next
Clock == IF previous = NoRun THEN NowValues ELSE {previous.now, previous.now + 1}

Init ==
    /\ variant \in Variants
    /\ env \in Envs(variant)
    /\ cfg = NoCfg
    /\ pc = "start"
    /\ res = NoResponse
    /\ body = <<>>
    /\ now = 0
    /\ idx = 0
    /\ features = <<>>
    /\ submitted = <<>>
    /\ fetchCount = 0
    /\ error = ""
    /\ logged = FALSE
    /\ reported = -1
    /\ previous = NoRun

\* throw: into the catch block where control() has one, else out of control()
Throw(msg) ==
    /\ error' = msg
    /\ pc' = IF HasTryCatch(variant) THEN "catch" ELSE "threw"

\* env is read and validated
ParseConfig ==
    /\ pc = "start"
    /\ IF ConfigError(variant, env) # ""
       THEN Throw(ConfigError(variant, env)) /\ UNCHANGED cfg
       ELSE /\ cfg' = IF IsUsgs(variant) THEN UsgsCfg(variant, env) ELSE GeoNetCfg(env)
            /\ pc' = "fetch"
            /\ UNCHANGED error
    /\ UNCHANGED <<previous, variant, env, res, body, now, idx, features, submitted,
                   fetchCount, logged, reported>>

\* await fetch(url): the request fails
FetchRejects ==
    /\ pc = "fetch"
    /\ fetchCount' = fetchCount + 1
    /\ Throw("fetch failed")
    /\ UNCHANGED <<previous, variant, env, cfg, res, body, now, idx, features, submitted,
                   logged, reported>>

\* await fetch(url): a response arrives
FetchResponds ==
    /\ pc = "fetch"
    /\ fetchCount' = fetchCount + 1
    /\ res' \in Responses
    /\ pc' = "response"
    /\ UNCHANGED <<previous, variant, env, cfg, body, now, idx, features, submitted,
                   error, logged, reported>>

\* if (!res.ok) throw
StatusNotOk ==
    /\ pc = "response"
    /\ ChecksStatus(variant)
    /\ ~res.ok
    /\ Throw("Failed to fetch data")
    /\ UNCHANGED <<previous, variant, env, cfg, res, body, now, idx, features, submitted,
                   fetchCount, logged, reported>>

\* await res.json() throws on text that is not JSON; a document without a
\* features array is parsed, and `for (... of body.features)` throws
BodyFails ==
    /\ pc = "response"
    /\ ChecksStatus(variant) => res.ok
    /\ res.kind # "features"
    /\ IF res.kind = "notjson"
       THEN Throw("SyntaxError: Unexpected token") /\ UNCHANGED now
       ELSE /\ Throw("TypeError: body.features is not iterable")
            /\ now' \in Clock
    /\ UNCHANGED <<previous, variant, env, cfg, res, body, idx, features, submitted,
                   fetchCount, logged, reported>>

\* body and now are read, and the features of the run before are kept: an
\* array that outlives the call
ReadBodyKeepsFeatures ==
    /\ pc = "response"
    /\ ChecksStatus(variant) => res.ok
    /\ res.kind = "features"
    /\ body' \in Payloads
    /\ now' \in Clock
    /\ idx' = 0
    /\ pc' = "loop"
    /\ UNCHANGED <<previous, variant, env, cfg, res, features, submitted,
                   fetchCount, error, logged, reported>>

\* body = await res.json(); now = Date.now(); features = []
ReadBody ==
    /\ pc = "response"
    /\ ChecksStatus(variant) => res.ok
    /\ res.kind = "features"
    /\ body' \in Payloads
    /\ now' \in Clock
    /\ idx' = 0
    /\ features' = <<>>
    /\ pc' = "loop"
    /\ UNCHANGED <<previous, variant, env, cfg, res, submitted, fetchCount, error, logged,
                   reported>>

\* one iteration of the for-loop that ends in `continue`
LoopSkip ==
    /\ pc = "loop"
    /\ idx < Len(body)
    /\ Excluded(variant, body[idx + 1], cfg, now)
    /\ idx' = idx + 1
    /\ UNCHANGED <<previous, variant, env, cfg, pc, res, body, now, features, submitted,
                   fetchCount, error, logged, reported>>

\* one iteration that pushes a feature
LoopPush ==
    /\ pc = "loop"
    /\ idx < Len(body)
    /\ ~Excluded(variant, body[idx + 1], cfg, now)
    /\ MapError(variant, body[idx + 1], cfg) = ""
    /\ features' = Append(features, MapFeature(variant, body[idx + 1], idx + 1, cfg))
    /\ idx' = idx + 1
    /\ UNCHANGED <<previous, variant, env, cfg, pc, res, body, now, submitted, fetchCount,
                   error, logged, reported>>

\* one iteration in which the mapping throws
LoopThrows ==
    /\ pc = "loop"
    /\ idx < Len(body)
    /\ ~Excluded(variant, body[idx + 1], cfg, now)
    /\ MapError(variant, body[idx + 1], cfg) # ""
    /\ Throw(MapError(variant, body[idx + 1], cfg))
    /\ UNCHANGED <<previous, variant, env, cfg, res, body, now, idx, features, submitted,
                   fetchCount, logged, reported>>

\* console.log(count); await this.submit(fc).  The sink is the injected
\* submission function: it takes the collection and completes.
Submit ==
    /\ pc = "loop"
    /\ idx = Len(body)
    /\ reported' = Len(features)
    /\ submitted' = Append(submitted, features)
    /\ pc' = "returned"
    /\ UNCHANGED <<previous, variant, env, cfg, res, body, now, idx, features, fetchCount,
                   error, logged>>

\* a catch block that logs and does not rethrow
CatchSwallows ==
    /\ pc = "catch"
    /\ logged' = TRUE
    /\ pc' = "returned"
    /\ UNCHANGED <<previous, variant, env, cfg, res, body, now, idx, features, submitted,
                   fetchCount, error, reported>>

\* catch (error) { console.error(...); throw error; }
Catch ==
    /\ pc = "catch"
    /\ logged' = TRUE
    /\ pc' = "threw"
    /\ UNCHANGED <<previous, variant, env, cfg, res, body, now, idx, features, submitted,
                   fetchCount, error, reported>>

Next ==
    \/ ParseConfig
    \/ FetchRejects
    \/ FetchResponds
    \/ StatusNotOk
    \/ BodyFails
    \/ ReadBody
    \/ LoopSkip
    \/ LoopPush
    \/ LoopThrows
    \/ Submit
    \/ Catch

Spec == Init /\ [][Next]_vars

\* The scheduler invokes control() again after a run that returned; the
\* upstream document is the one the run before it read.  The locals of
\* control() are set afresh by the steps of the new run.
Rerun ==
    /\ pc = "returned"
    /\ previous = NoRun
    /\ previous' = [res |-> res, body |-> body, now |-> now]
    /\ pc' = "start"
    /\ UNCHANGED <<variant, env, cfg, res, body, now, idx, features, submitted,
                   fetchCount, error, logged, reported>>

NextRerun == Next \/ Rerun

\* two runs of control() on one upstream document
SpecRerun == Init /\ [][NextRerun]_vars

-----------------------------------------------------------------------------
(* Properties *)

\* record k of the feed has a feature in the collection under construction
Pushed(k) == \E j \in 1..Len(features) : features[j].src = k

\* record k of the feed has a feature in a collection handed to submit()
Submitted(k) ==
    \E n \in 1..Len(submitted) : \E j \in 1..Len(submitted[n]) : submitted[n][j].src = k

\* the run has stopped before any fetch
FailedBeforeFetch ==
    /\ pc \in {"start", "catch", "threw"}
    /\ fetchCount = 0
    /\ submitted = <<>>

\* the string is exactly four comma-separated numbers
FourNumbers(str) ==
    /\ Len(Split(str)) = 4
    /\ \A k \in 1..4 : ~isNaN(Number(Split(str)[k]))

\* C1: a 'Bounding Box' that is not exactly four numbers makes the run fail
\* before any fetch; neither fetch nor submit is ever called.
C1_BadBoundingBoxFailsBeforeFetch ==
    (IsUsgs(variant) /\ ~FourNumbers(env.bbox)) => FailedBeforeFetch

\* C2: a numeric field that does not parse, or an MMI outside -1..8, makes the
\* run fail before the fetch; neither fetch nor submit is ever called.
C2_BadNumberFailsBeforeFetch ==
    LET bad == IF IsUsgs(variant)
               THEN isNaN(Number(env.minMag)) \/ isNaN(Number(env.maxAge))
               ELSE \/ isNaN(Number(env.mmi)) \/ isNaN(Number(env.maxAge))
                    \/ Number(env.mmi).v < -10 \/ Number(env.mmi).v > 80
    IN  bad => FailedBeforeFetch

\* C3: after a non-success status or a failed fetch the run ends in an error:
\* no second fetch, no record filtered or mapped, no submit.
C3_FetchFailureEndsRun ==
    ((res # NoResponse /\ ~res.ok) \/ error = "fetch failed") =>
        /\ fetchCount = 1
        /\ pc \in {"response", "catch", "threw"}
        /\ idx = 0 /\ features = <<>>
        /\ submitted = <<>>

\* the collection is the filtered and mapped feed, in feed order
CompleteCollection(fc) ==
    /\ Len(fc) = Cardinality({k \in 1..Len(body) : ~Excluded(variant, body[k], cfg, now)})
    /\ \A j \in 1..Len(fc) :
          /\ fc[j].src \in 1..Len(body)
          /\ ~Excluded(variant, body[fc[j].src], cfg, now)
          /\ fc[j] = MapFeature(variant, body[fc[j].src], fc[j].src, cfg)
          /\ j > 1 => fc[j - 1].src < fc[j].src

PassesAllButMagnitude(k) ==
    /\ ~LatFails(At(body[k].coords, 2), cfg)
    /\ lonInBox(At(body[k].coords, 1), cfg)
    /\ ~AgeFails(now, body[k].time, cfg.maxAgeMinutes)
    /\ HasTypeTest(variant) => body[k].type = "earthquake"

\* C5: in the magnitude-gated pipelines a record with m < M is never pushed or
\* submitted, and a record with m >= M (m = M included) that passes the other
\* tests is pushed, and submitted when the run returns.
C5_MagnitudeGate ==
    IsUsgs(variant) =>
        \A k \in 1..idx :
            LET m == body[k].mag
                M == cfg.minMagnitude
            IN  (m.t = "num" /\ M.t = "num") =>
                    /\ m.v < M.v => (~Pushed(k) /\ ~Submitted(k))
                    /\ (m.v >= M.v /\ PassesAllButMagnitude(k)) =>
                          (Pushed(k) /\ (pc = "returned" => Submitted(k)))

\* a record of exactly the minimum magnitude has been submitted next to one
\* below the minimum that was dropped
C5_Witness ==
    /\ IsUsgs(variant)
    /\ pc = "returned"
    /\ cfg.minMagnitude.t = "num"
    /\ \E k \in 1..idx : body[k].mag = cfg.minMagnitude /\ Submitted(k)
    /\ \E k \in 1..idx :
          body[k].mag.t = "num" /\ body[k].mag.v < cfg.minMagnitude.v /\ ~Submitted(k)

\* record k passes every test of the USGS filter but the bounding-box test
PassesAllButBox(k) ==
    /\ ~MagFails(body[k].mag, cfg.minMagnitude)
    /\ ~AgeFails(now, body[k].time, cfg.maxAgeMinutes)
    /\ HasTypeTest(variant) => body[k].type = "earthquake"

\* the bounding-box test as the claim words it, on the tenths
InBox(lat, lon, minLat, maxLat, minLon, maxLon) ==
    /\ minLat <= lat /\ lat <= maxLat
    /\ IF minLon <= maxLon
       THEN lon >= minLon /\ lon <= maxLon
       ELSE lon >= minLon \/ lon <= maxLon

\* C6: with four numeric bounds, a record that passes the other tests is pushed
\* iff minLat <= lat <= maxLat and its longitude is in range (AND when
\* minLon <= maxLon, OR when minLon > maxLon), all bounds inclusive; the
\* listed cases for the boxes 170..-170 and -10..10 are instances.
C6_BoundingBox ==
    (IsUsgs(variant) /\ \A b \in {cfg.minLat, cfg.maxLat, cfg.minLon, cfg.maxLon} : b.t = "num") =>
        \A k \in 1..idx :
            LET lat == body[k].coords[2].v
                lon == body[k].coords[1].v
            IN  /\ PassesAllButBox(k) =>
                      (Pushed(k) <=> InBox(lat, lon, cfg.minLat.v, cfg.maxLat.v,
                                           cfg.minLon.v, cfg.maxLon.v))
                /\ ~InBox(lat, lon, cfg.minLat.v, cfg.maxLat.v, cfg.minLon.v, cfg.maxLon.v)
                      => ~Submitted(k)
                /\ (PassesAllButBox(k) /\ cfg.minLat.v <= lat /\ lat <= cfg.maxLat.v) =>
                      /\ (cfg.minLon.v = 1700 /\ cfg.maxLon.v = -1700 /\ lon = 1750) => Pushed(k)
                      /\ (cfg.minLon.v = 1700 /\ cfg.maxLon.v = -1700 /\ lon = 0) => ~Pushed(k)
                      /\ (cfg.minLon.v = -100 /\ cfg.maxLon.v = 100 /\ lon = 0) => Pushed(k)
                      /\ (cfg.minLon.v = -100 /\ cfg.maxLon.v = 100 /\ lon = 200) => ~Pushed(k)
                      /\ lon \in {cfg.minLon.v, cfg.maxLon.v} => Pushed(k)

\* under the box 170..-170 the record at longitude 175 was submitted and the
\* record at longitude 0 was dropped
C6_Witness ==
    /\ pc = "returned"
    /\ cfg.minLon = Num(1700) /\ cfg.maxLon = Num(-1700)
    /\ \E k \in 1..idx : body[k].coords[1] = Num(1750) /\ Submitted(k)
    /\ \E k \in 1..idx :
          body[k].coords[1] = Num(0) /\ PassesAllButBox(k) /\ ~Submitted(k)

\* record k passes every test of the filter but the age test
PassesAllButAge(k) ==
    IsUsgs(variant) =>
        /\ ~MagFails(body[k].mag, cfg.minMagnitude)
        /\ ~LatFails(At(body[k].coords, 2), cfg)
        /\ lonInBox(At(body[k].coords, 1), cfg)
        /\ HasTypeTest(variant) => body[k].type = "earthquake"

\* the event time of record k in milliseconds (a number for every Iso time)
EventTime(k) == IF IsUsgs(variant) THEN body[k].time ELSE DateParse(body[k].time)

\* C7: with age = now - event time in ms, a record whose age is exactly
\* maxAgeMinutes * 60 * 1000 is included and a record one millisecond older is
\* excluded, in the magnitude-gated and in the intensity-gated pipeline.
C7_AgeBoundary ==
    \A k \in 1..idx :
        (cfg.maxAgeMinutes.t = "num" /\ EventTime(k).t = "num") =>
            LET age == now - EventTime(k).v
                maxAgeMs == cfg.maxAgeMinutes.v * 6 * 1000
            IN  /\ (age = maxAgeMs /\ PassesAllButAge(k)) =>
                      (Pushed(k) /\ (pc = "returned" => Submitted(k)))
                /\ age = maxAgeMs + 1 => (~Pushed(k) /\ ~Submitted(k))

\* a record exactly on the age boundary has been submitted
C7_Witness ==
    /\ pc = "returned"
    /\ cfg.maxAgeMinutes.t = "num"
    /\ \E k \in 1..idx :
          /\ EventTime(k).t = "num"
          /\ now - EventTime(k).v = cfg.maxAgeMinutes.v * 6 * 1000
          /\ Submitted(k)

\* C8: where 'Max Age Minutes' is documented with a 7-day maximum, a value
\* above 10080 is accepted and the filter uses min(value, 10080): no record
\* older than 10080 minutes is pushed or submitted.
C8_AgeClampedToWeek ==
    (IsUsgs(variant) /\ ~isNaN(Number(env.maxAge)) /\ res.ok) =>
        \A k \in 1..idx :
            (now - body[k].time.v > MAX_AGE_LIMIT * 60 * 1000) => ~Submitted(k)

\* C9: in the GeoNet pipeline every feature comes from a record whose mmi is
\* at least the configured minimum MMI.
C9_IntensityGate ==
    variant = "geonet" =>
        \A k \in 1..idx :
            (body[k].mmi.t = "num" /\ cfg.mmi.t = "num" /\ body[k].mmi.v < cfg.mmi.v) =>
                ~Submitted(k)

\* the row of the version's tables for a level
AlertRow(v, level) ==
    [color |-> ALERT_COLORS[level],
     fatalities |-> ESTIMATED_FATALITIES[level],
     losses |-> IF v = "task" THEN ESTIMATED_LOSSES[level]
                ELSE InlineEstimatedLosses[level]]

AlertLevels == {K_none, K_green, K_yellow, K_orange, K_red}

\* C10: the alert lookup returns the row of the level, compared without
\* regard to case, and the 'none' row for every other alert value (empty,
\* null, absent or unrecognized).
C10_AlertLookupTotal ==
    (HasAlert(variant) /\ res.ok) =>
        \A j \in 1..Len(features) :
            LET alert == body[features[j].src].alert
                row == IF alert.t = "str" /\ toLowerCase(alert.s) \in AlertLevels
                       THEN AlertRow(variant, toLowerCase(alert.s))
                       ELSE AlertRow(variant, K_none)
            IN  /\ features[j].markerColor = row.color
                /\ features[j].estimatedFatalities = row.fatalities
                /\ features[j].estimatedLosses = row.losses

\* the two collections have the same features in the same order, the expiry
\* timestamp aside
SameButExpiry(fc1, fc2) ==
    /\ Len(fc1) = Len(fc2)
    /\ \A j \in 1..Len(fc1) :
          [fc1[j] EXCEPT !.stale = NoDate] = [fc2[j] EXCEPT !.stale = NoDate]

\* C11 as stated: two runs on one payload under one configuration submit the
\* same collection, the expiry timestamp aside.
C11_Idempotent ==
    Len(submitted) = 2 => SameButExpiry(submitted[1], submitted[2])

\* every record is on the same side of the maximum age at both clock readings
SameAges ==
    \A k \in 1..Len(body) :
        Excluded(variant, body[k], cfg, previous.now)
            <=> Excluded(variant, body[k], cfg, now)

\* C11: two runs on one payload under one configuration submit the same
\* collection, the expiry timestamp aside, provided no record passes the
\* maximum age between the two clock readings; the second run starts from an
\* empty collection.
C11_IdempotentWhileAgesHold ==
    (Len(submitted) = 2 /\ SameAges) => SameButExpiry(submitted[1], submitted[2])

\* a second run, at a later clock reading, has submitted the features of the
\* first again and left out the record the first left out
C11_Witness ==
    /\ Len(submitted) = 2
    /\ SameAges
    /\ now > previous.now
    /\ Len(submitted[2]) >= 1
    /\ Len(submitted[2]) < Len(body)

\* the depth the claim reads: the third coordinate in tenths, 0 when absent
ThirdOrZero(coords) == IF Len(coords) >= 3 THEN coords[3].v ELSE 0

\* the scenario: one earthquake of magnitude 5.0 at [175, -41, 12], dated now,
\* under minMagnitude 2.5, the box -90,90,-180,180 and maxAge 60
Scenario ==
    /\ IsUsgs(variant)
    /\ pc = "returned"
    /\ Len(body) = 1
    /\ body[1].mag = Num(50) /\ body[1].time = Num(now)
    /\ body[1].type = "earthquake"
    /\ body[1].coords = <<Num(1750), Num(-410), Num(120)>>
    /\ cfg.minMagnitude = Num(25) /\ cfg.maxAgeMinutes = Num(600)
    /\ cfg.minLat = Num(-900) /\ cfg.maxLat = Num(900)
    /\ cfg.minLon = Num(-1800) /\ cfg.maxLon = Num(1800)

MagnitudeFive == <<"M", "a", "g", "n", "i", "t", "u", "d", "e", ":", " ", "5">>

HasLine(remarks, line) == \E i \in 1..Len(remarks) : remarks[i] = line

\* C12 as stated: every submitted feature has the geometry [lon, lat, -depth],
\* depth being the record's third coordinate or 0; the scenario yields one
\* feature with elevation -12 and the remarks line 'Magnitude: 5'.
C12_Geometry ==
    /\ \A n \in 1..Len(submitted) : \A j \in 1..Len(submitted[n]) :
          LET r == body[submitted[n][j].src]
          IN  submitted[n][j].coordinates =
                  <<r.coords[1], r.coords[2], Num(0 - ThirdOrZero(r.coords))>>
    /\ Scenario =>
          /\ Len(submitted[1]) = 1
          /\ Len(submitted[1][1].coordinates) = 3
          /\ submitted[1][1].coordinates[3] = Num(-120)
          /\ HasLine(submitted[1][1].remarks, MagnitudeFive)

\* C12: in src/task.ts and the two earlier USGS versions without a lifetime
\* the geometry is [lon, lat, -depth], depth being the third coordinate or 0;
\* the lifetime version emits [lon, lat]; the GeoNet version emits
\* [lon, lat, -properties.depth].  The scenario yields one feature with the
\* remarks line 'Magnitude: 5', and with elevation -12 where there is one.
C12_GeometryByVersion ==
    /\ \A n \in 1..Len(submitted) : \A j \in 1..Len(submitted[n]) :
          LET r == body[submitted[n][j].src]
              g == submitted[n][j].coordinates
          IN  CASE variant = "lifetime" -> g = <<r.coords[1], r.coords[2]>>
                [] variant = "geonet" ->
                     g = <<r.coords[1], r.coords[2], Num(0 - r.depth.v)>>
                [] OTHER ->
                     g = <<r.coords[1], r.coords[2], Num(0 - ThirdOrZero(r.coords))>>
    /\ Scenario =>
          /\ Len(submitted[1]) = 1
          /\ HasLine(submitted[1][1].remarks, MagnitudeFive)
          /\ variant # "lifetime" =>
                /\ Len(submitted[1][1].coordinates) = 3
                /\ submitted[1][1].coordinates[3] = Num(-120)

\* src/task.ts has run the scenario
C12_Witness == Scenario /\ variant = "task" /\ Len(submitted) = 1

PassesAllTests(k) ==
    /\ body[k].mag.v >= cfg.minMagnitude.v
    /\ InBox(body[k].coords[2].v, body[k].coords[1].v, cfg.minLat.v, cfg.maxLat.v,
             cfg.minLon.v, cfg.maxLon.v)
    /\ now - body[k].time.v <= cfg.maxAgeMinutes.v * 6 * 1000
    /\ body[k].type = "earthquake"

\* a magnitude-gated run has returned, under a configuration of numbers, on a
\* feed whose records all carry a magnitude
ReturnedOnSoundInput ==
    /\ IsUsgs(variant)
    /\ pc = "returned"
    /\ res.ok
    /\ \A c \in {cfg.minLat, cfg.maxLat, cfg.minLon, cfg.maxLon, cfg.minMagnitude,
                  cfg.maxAgeMinutes} : c.t = "num"
    /\ \A k \in 1..Len(body) : body[k].mag.t = "num"

\* C14: the submitted collection holds one feature for each record that passes
\* all of the magnitude, latitude, longitude, age and classification tests, in
\* feed order, and none for any other record; the reported count is the
\* number of passing records.
C14_ExactSubList ==
    ReturnedOnSoundInput =>
        LET fc == submitted[1]
            passing == {k \in 1..Len(body) : PassesAllTests(k)}
        IN  /\ Len(fc) = Cardinality(passing)
            /\ \A j \in 1..Len(fc) :
                  /\ fc[j].src \in passing
                  /\ j > 1 => fc[j - 1].src < fc[j].src
            /\ reported = Cardinality(passing)

\* record k lacks its magnitude
Malformed(k) ==
    IF IsUsgs(variant) THEN body[k].mag.t # "num" ELSE body[k].magnitude.t # "num"

\* C15: a feed with a record that lacks its magnitude makes the run abort:
\* the run never returns, nothing is submitted, and the malformed record is
\* never submitted as a feature.
C15_MalformedRecordAborts ==
    (res.ok /\ \E k \in 1..Len(body) : Malformed(k)) =>
        /\ pc # "returned"
        /\ submitted = <<>>
        /\ \A k \in 1..Len(body) : Malformed(k) => ~Submitted(k)

\* C16: in the version with 'CoT Lifetime Seconds' every submitted feature has
\* stale = event time + lifetime * 1000 ms and time = start = event time, so
\* stale >= start for a lifetime >= 0 (600000 ms later under the default 600);
\* a second run at a later clock reading gives a record the same expiry.
C16_ExpiryFromEventTime ==
    variant = "lifetime" =>
        /\ \A n \in 1..Len(submitted) : \A j \in 1..Len(submitted[n]) :
              LET f == submitted[n][j]
                  eventTime == body[f.src].time.v
                  lifetime == Number(env.life)
              IN  /\ lifetime.t = "num"
                  /\ f.stale = Iso(eventTime + lifetime.v * 100)
                  /\ f.time = Iso(eventTime) /\ f.start = Iso(eventTime)
                  /\ lifetime.v >= 0 => f.stale.v >= f.start.v
                  /\ env.life = <<"6", "0", "0">> => f.stale.v = f.start.v + 600000
                  /\ env.life = <<"0">> => f.stale = f.start
        /\ Len(submitted) = 2 =>
              \A i \in 1..Len(submitted[1]), j \in 1..Len(submitted[2]) :
                  submitted[1][i].src = submitted[2][j].src
                      => submitted[1][i].stale = submitted[2][j].stale

\* a second run, at a later clock reading, has submitted a feature of a
\* record dated before the first run
C16_Witness ==
    /\ variant = "lifetime"
    /\ Len(submitted) = 2
    /\ now > previous.now
    /\ \E i \in 1..Len(submitted[1]), j \in 1..Len(submitted[2]) :
          /\ submitted[1][i].src = submitted[2][j].src
          /\ submitted[2][j].start.v < previous.now
          /\ submitted[2][j].stale.v > submitted[2][j].start.v

====
